---- MODULE Spec2Model ----
(***************************************************************************)
(* Publish API of aptly (api/publish.go): the three request handlers       *)
(* apiPublishRepoOrSnapshot (Create), apiPublishUpdateSwitch               *)
(* (UpdateSources) and apiPublishDrop (Drop), the task bodies they hand to *)
(* the resource-keyed task scheduler, the Record Store of published        *)
(* repositories and the on-disk tree <prefix>/dists/<distribution>/<comp>. *)
(***************************************************************************)
EXTENDS Integers, Sequences, FiniteSets, Bags, TLC

\* ------------------------------------------------------------------ bounds
\* Number of requests (accepted or rejected) in one behaviour.
MaxTasks == 2

\* ---------------------------------------------------------------- universe
\* Published-repo identities (storage, prefix, distribution).
Idents == {"p1"}
\* Component names; CompOrder is their sorted order (Components() is sorted).
Components == {"contrib", "main"}
CompOrder == <<"contrib", "main">>
Snapshots == {"s1", "s2"}
LocalRepos == {"r1", "r2"}
Names == Snapshots \cup LocalRepos

EmptyMap == [c \in {} |-> ""]

\* deb.SourceSnapshot / deb.SourceLocalRepo
SourceSnapshot == "snapshot"
SourceLocalRepo == "local"

\* UUID of the snapshot / local repo stored under a name.
SourceUUID(name) ==
    CASE name = "s1" -> "uuid-s1"
      [] name = "s2" -> "uuid-s2"
      [] name = "r1" -> "uuid-r1"
      [] name = "r2" -> "uuid-r2"
      [] OTHER -> "uuid-none"

\* Resource keys (opaque): published.Key(), snapshot.ResourceKey(), localRepo.Key()
PublishedKey(id) == <<"U", id>>
SnapshotResourceKey(name) == <<"S", SourceUUID(name)>>
LocalRepoKey(name) == <<"L", SourceUUID(name)>>

\* A record of the Record Store / the in-memory *deb.PublishedRepo.
NoRec == [SourceKind |-> "none", Sources |-> EmptyMap, SkipContents |-> FALSE]
Exists(rec) == rec.SourceKind # "none"

\* published.Components(): the bound components, sorted.
PublishedComponents(p) == SelectSeq(CompOrder, LAMBDA c : c \in DOMAIN p.Sources)

Range(s) == {s[i] : i \in DOMAIN s}

\* The request lists b.Sources / b.Snapshots: nil (absent) or a list of
\* {Component, Name}.
SameKind(names) == names \subseteq Snapshots \/ names \subseteq LocalRepos
Pairs == [Component : Components, Name : Names]
SourceLists == {<<>>} \cup {<<p>> : p \in Pairs}
                 \cup {l \in {<<p, q>> : p \in {x \in Pairs : x.Component = "main"},
                                           q \in Pairs} :
                         SameKind({l[1].Name, l[2].Name})}
NilList == [nil |-> TRUE, list |-> <<>>]
OptLists == {NilList} \cup {[nil |-> FALSE, list |-> l] : l \in SourceLists}
\* The deprecated b.Snapshots list: absent, empty, or one binding.
LegacyLists == {NilList, [nil |-> FALSE, list |-> <<>>]}
                 \cup {[nil |-> FALSE, list |-> <<p>>] :
                         p \in {x \in Pairs : x.Name \in {"s2", "r1"}}}

\* for _, source := range list { sources[source.Component] = source.Name }
ListToMap(list) ==
    [c \in {list[i].Component : i \in DOMAIN list} |->
        LET last == CHOOSE i \in DOMAIN list :
                       /\ list[i].Component = c
                       /\ \A j \in DOMAIN list : j > i => list[j].Component # c
        IN list[last].Name]

\* Pointer-valued request flags (*bool): "nil", "true", "false".
OptBools == {"nil", "true", "false"}
\* The values the requests give the publishing flags (SkipContents).
FlagInputs == {"nil", "true"}

\* c.Request.URL.Query(): parameter name -> value; Get returns "" if absent.
Queries == { EmptyMap,
             [k \in {"skipCleanup"} |-> "1"],
             [k \in {"SkipCleanup"} |-> "1"],
             [k \in {"force", "skipCleanup"} |-> "1"] }
QueryGet(q, key) == IF key \in DOMAIN q THEN q[key] ELSE ""

VARIABLES
    store,   \* Record Store: identity -> record (NoRec when absent)
    disk,    \* on-disk tree: identity -> (component -> materialized source)
    tasks,   \* requests in arrival order, with the task each one submitted
    calls,   \* handler calls past their lookup and not yet at their submit
    last,    \* the last task body that ran: its index and the state before it
    req      \* the request a handler was called with, where one is recorded

vars == <<store, disk, tasks, calls, last, req>>

\* context.Config().SkipContentsPublishing
ConfigSkipContents == FALSE

\* if b.X != nil { published.X = *b.X }
ApplyFlag(cur, opt) == IF opt = "nil" THEN cur ELSE (opt = "true")

\* One request: what the handler answered (abort: 0 or the HTTP status of
\* AbortWithJSONError), the task it submitted (state "none" when it
\* submitted none), what the task's closure captured, and how far the loop
\* over removedComponents has come (dropped: directories removed so far).
BlankEntry ==
    [ op |-> "none", id |-> "none", abort |-> 0, state |-> "none",
      resources |-> {}, published |-> NoRec, fetched |-> NoRec,
      updated |-> {}, removed |-> <<>>,
      sourcesNil |-> TRUE, sources |-> EmptyMap, legacy |-> FALSE,
      bSkipContents |-> "nil", skipCleanup |-> FALSE, force |-> FALSE,
      query |-> EmptyMap, pc |-> "none", code |-> 0, err |-> "none",
      cleanupErr |-> FALSE, dropped |-> 0 ]

\* The inputs of one handler call: the bound JSON body, the query, the
\* faults met (signer, LoadComplete) and the record and tree it started on.
NoReq ==
    [ op |-> "none", id |-> "none", signerOK |-> TRUE, loadOK |-> TRUE,
      kind |-> "none", list |-> <<>>, sourcesNil |-> TRUE,
      legacyNil |-> TRUE, legacy |-> <<>>, badLoad |-> {},
      skipCleanup |-> "nil", skipContents |-> "nil", query |-> EmptyMap,
      rec |-> NoRec, tree |-> EmptyMap ]

Submitted(e) == e.state # "none"
Terminal(e) == e.state \in {"succeeded", "failed"}

\* ------------------------------------------------------------ Create handler

\* Mutant of getSigner: the error of signer.Init() is dropped.
getSigner_Unchecked(signerOK) == TRUE

\* getSigner (lines 26-45): TRUE when it returns a signer and no error. A
\* request with Signing.Skip set passes without constructing one.
getSigner(signerOK) == signerOK

\* Mutant of SourcesEmpty: an empty list is let through.
SourcesEmpty_Never(list) == FALSE

\* if len(b.Sources) == 0 (line 166)
SourcesEmpty(list) == Len(list) = 0

\* snapshotCollection.ByName / localCollection.ByName
KnownNames(kind) == IF kind = SourceSnapshot THEN Snapshots ELSE LocalRepos

\* Index of the first list entry at which the Create loop returns, 0 if none:
\* an unknown name always returns; a load failure returns only in the
\* snapshot branch (the local-repo branch answers 500 and goes on).
CreateStop(kind, list, badLoad) ==
    LET stops == {i \in DOMAIN list :
                    \/ list[i].Name \notin KnownNames(kind)
                    \/ (kind = SourceSnapshot /\ list[i].Name \in badLoad)}
    IN IF stops = {} THEN 0 ELSE CHOOSE i \in stops : \A j \in stops : i <= j

\* First status passed to AbortWithJSONError by the Create loop, 0 if none.
CreateAbort(kind, list, badLoad) ==
    LET stop == CreateStop(kind, list, badLoad)
        upto == IF stop = 0 THEN Len(list) ELSE stop
        errs == {i \in 1..upto :
                    \/ list[i].Name \notin KnownNames(kind)
                    \/ list[i].Name \in badLoad}
        first == CHOOSE i \in errs : \A j \in errs : i <= j
    IN IF errs = {} THEN 0
       ELSE IF list[first].Name \notin KnownNames(kind) THEN 404 ELSE 500

\* resources = append(resources, snapshot.ResourceKey() | localRepo.Key())
SourceKey(kind, name) ==
    IF kind = SourceSnapshot THEN SnapshotResourceKey(name) ELSE LocalRepoKey(name)

\* Mutant of CreateResources: only the identity key is declared.
CreateResources_IdentityOnly(kind, list, id) == {PublishedKey(id)}

\* Mutant of CreateResources: the identity key is not reserved.
CreateResources_NoIdentity(kind, list, id) ==
    {SourceKey(kind, list[i].Name) : i \in DOMAIN list}

\* resources of the Create task: one key per source, then published.Key()
CreateResources(kind, list, id) ==
    {SourceKey(kind, list[i].Name) : i \in DOMAIN list} \cup {PublishedKey(id)}

\* deb.NewPublishedRepo: refuses a component named twice.
NewPublishedRepoOK(list) ==
    \A i, j \in DOMAIN list : list[i].Component = list[j].Component => i = j

NewPublishedRepo(kind, list) ==
    [ SourceKind |-> kind,
      Sources |-> [c \in {list[i].Component : i \in DOMAIN list} |->
                      SourceUUID(ListToMap(list)[c])],
      SkipContents |-> FALSE ]

Reject(op, id, code) ==
    [BlankEntry EXCEPT !.op = op, !.id = id, !.abort = code]

\* apiPublishRepoOrSnapshot up to maybeRunTaskInBackground.
CreateEntry(id, signerOK, kind, list, badLoad, skipContents) ==
    IF ~getSigner(signerOK) THEN Reject("create", id, 500)
    ELSE IF SourcesEmpty(list) THEN Reject("create", id, 400)
    ELSE IF kind \notin {SourceSnapshot, SourceLocalRepo} THEN Reject("create", id, 400)
    ELSE IF CreateStop(kind, list, badLoad) # 0
         THEN Reject("create", id, CreateAbort(kind, list, badLoad))
    ELSE IF ~NewPublishedRepoOK(list)
         THEN Reject("create", id,
                     IF CreateAbort(kind, list, badLoad) # 0
                     THEN CreateAbort(kind, list, badLoad) ELSE 500)
    ELSE [BlankEntry EXCEPT
            !.op = "create", !.id = id,
            !.abort = CreateAbort(kind, list, badLoad),
            !.state = "pending",
            !.resources = CreateResources(kind, list, id),
            !.published = NewPublishedRepo(kind, list),
            !.bSkipContents = skipContents ]

\* ----------------------------------------------------- UpdateSources handler

\* published.RemoveComponent for every component of `gone`
RemoveComponents(p, gone) ==
    [p EXCEPT !.Sources = [c \in DOMAIN p.Sources \ gone |-> p.Sources[c]]]

\* Mutant of RemovedComponents: no component is ever removed.
RemovedComponents_None(p, sourcesNil, sources) == <<>>

\* Components of the fetched repo that the sources map does not name, in the
\* order of published.Components().
RemovedComponents(p, sourcesNil, sources) ==
    IF sourcesNil THEN <<>>
    ELSE SelectSeq(PublishedComponents(p), LAMBDA c : c \notin DOMAIN sources)

\* published.UpsertSnapshot / UpsertLocalRepo for the components of P
Upsert(p, sources, P) ==
    [p EXCEPT !.Sources =
        [c \in DOMAIN p.Sources \cup P |->
            IF c \in P THEN SourceUUID(sources[c]) ELSE p.Sources[c]]]

\* Mutant of UpdatedComponents: every listed component counts as updated.
UpdatedComponents_All(p, sources, P) == P

\* The components of P the loop appends to updatedComponents: unbound
\* before, or bound to another UUID.
UpdatedComponents(p, sources, P) ==
    {c \in P : c \notin DOMAIN p.Sources \/ p.Sources[c] # SourceUUID(sources[c])}

\* for component, name := range sources { ... }: Go ranges over a map in an
\* unspecified order, so when some entry fails (unknown name: 404, load
\* failure: 500) any set of the sound entries may have been bound before it.
BindLoop(p, sources, known, badLoad) ==
    LET F == {c \in DOMAIN sources : sources[c] \notin known \/ sources[c] \in badLoad}
    IN IF F = {}
       THEN {[ abort |-> 0,
               published |-> Upsert(p, sources, DOMAIN sources),
               updated |-> UpdatedComponents(p, sources, DOMAIN sources) ]}
       ELSE {[ abort |-> IF sources[f] \notin known THEN 404 ELSE 500,
               published |-> Upsert(p, sources, P),
               updated |-> UpdatedComponents(p, sources, P) ] :
                f \in F, P \in SUBSET (DOMAIN sources \ F)}

\* Mutant of RefreshComponents: the refresh marks nothing.
RefreshComponents_None(p) == {}

\* updatedComponents = published.Components(), each given to
\* published.UpdateLocalRepo (lines 417-420)
RefreshComponents(p) == Range(PublishedComponents(p))

\* Mutant of LegacyFallback: a legacy list is used whenever it is given.
LegacyFallback_WheneverGiven(bSources, bSnapshots) == ~bSnapshots.nil

\* if b.Sources == nil && b.Snapshots != nil (line 425)
LegacyFallback(bSources, bSnapshots) == bSources.nil /\ ~bSnapshots.nil

\* Lines 365-466: the delta of the request against the fetched repo.
UpdateDelta(fetched, bSources, bSnapshots, badLoad) ==
    LET sources0 == IF bSources.nil THEN EmptyMap ELSE ListToMap(bSources.list)
        removed == RemovedComponents(fetched, bSources.nil, sources0)
        p1 == RemoveComponents(fetched, Range(removed))
        legacy == LegacyFallback(bSources, bSnapshots)
        base == [ removed |-> removed, sourcesNil |-> bSources.nil,
                  sources |-> sources0, legacy |-> FALSE ]
        With(r, b) == [ abort |-> r.abort, published |-> r.published,
                        updated |-> r.updated, removed |-> b.removed,
                        sourcesNil |-> b.sourcesNil, sources |-> b.sources,
                        legacy |-> b.legacy ]
    IN IF fetched.SourceKind = SourceLocalRepo
       THEN IF Len(bSnapshots.list) > 0
            THEN {With([abort |-> 404, published |-> p1, updated |-> {}], base)}
            ELSE IF ~bSources.nil
            THEN {With(r, base) : r \in BindLoop(p1, sources0, LocalRepos, badLoad)}
            ELSE \* published.UpdateLocalRepo(component) for every component
                 {With([abort |-> 0, published |-> p1,
                        updated |-> RefreshComponents(p1)], base)}
       ELSE IF fetched.SourceKind = SourceSnapshot
       THEN LET b == IF legacy
                     THEN [base EXCEPT !.sourcesNil = FALSE,
                                       !.sources = ListToMap(bSnapshots.list),
                                       !.legacy = TRUE]
                     ELSE base
            IN {With(r, b) : r \in BindLoop(p1, b.sources, Snapshots, badLoad)}
       ELSE {With([abort |-> 500, published |-> p1, updated |-> {}], base)}

\* resources := []string{string(published.Key())} (line 484)
UpdateResources(id) == {PublishedKey(id)}

\* b.SkipCleanup == nil || !*b.SkipCleanup is the condition to clean up
SkipCleanupOf(opt) == opt = "true"

\* Mutant of UpdateReturns: the handler goes on after a source failed to load.
UpdateReturns_NotOnLoadFailure(abort) == abort \notin {0, 500}

\* Every AbortWithJSONError of lines 365-466 is followed by `return`.
UpdateReturns(abort) == abort # 0

\* apiPublishUpdateSwitch up to maybeRunTaskInBackground: the entries the
\* request can leave.
UpdateEntries(id, signerOK, loadOK, bSources, bSnapshots, badLoad, skipCleanup, skipContents) ==
    IF ~getSigner(signerOK) THEN {Reject("update", id, 500)}
    ELSE IF ~Exists(store[id]) THEN {Reject("update", id, 404)}
    ELSE IF ~loadOK THEN {Reject("update", id, 500)}
    ELSE { [BlankEntry EXCEPT
              !.op = "update", !.id = id,
              !.abort = d.abort,
              !.state = IF UpdateReturns(d.abort) THEN "none" ELSE "pending",
              !.resources = IF UpdateReturns(d.abort) THEN {}
                            ELSE UpdateResources(id),
              !.fetched = store[id],
              !.published =
                  IF d.abort = 0
                  THEN [d.published EXCEPT
                          !.SkipContents = ApplyFlag(@, skipContents)]
                  ELSE d.published,
              !.updated = d.updated, !.removed = d.removed,
              !.sourcesNil = d.sourcesNil, !.sources = d.sources,
              !.legacy = d.legacy,
              !.bSkipContents = IF d.abort = 0 THEN skipContents ELSE "nil",
              !.skipCleanup = (d.abort = 0 /\ SkipCleanupOf(skipCleanup)) ] :
           d \in UpdateDelta(store[id], bSources, bSnapshots, badLoad) }

\* ---------------------------------------------------------------- Drop handler

\* Mutant of DropResources: the Drop task declares no key.
DropResources_None(id) == {}

\* resources := []string{string(published.Key())} (line 554)
DropResources(id) == {PublishedKey(id)}

\* apiPublishDrop up to maybeRunTaskInBackground.
DropEntry(id, query) ==
    IF ~Exists(store[id]) THEN Reject("drop", id, 404)
    ELSE [BlankEntry EXCEPT
            !.op = "drop", !.id = id, !.state = "pending",
            !.resources = DropResources(id),
            !.fetched = store[id],
            !.query = query,
            !.force = (QueryGet(query, "force") = "1"),
            !.skipCleanup = (QueryGet(query, "SkipCleanup") = "1") ]

\* ------------------------------------------------------------ request actions

\* LoadComplete failures injected per request: none, or one of the sources
\* the request names.
BadLoads(list) == {{}} \cup {{list[i].Name} : i \in DOMAIN list}
SourceKinds == {SourceSnapshot, SourceLocalRepo, "bogus"}

CanRequest == Len(tasks) + BagCardinality(calls) < MaxTasks

\* What a handler does with the entry it computed after its lookup: an error
\* has been answered and the request is over, or the handler goes on to
\* maybeRunTaskInBackground, which other handlers and task bodies can
\* precede (ByName, LoadComplete and the flag code lie in between).
Handled(e) ==
    IF Submitted(e)
    THEN calls' = calls (+) SetToBag({e}) /\ tasks' = tasks
    ELSE tasks' = Append(tasks, e) /\ calls' = calls

\* maybeRunTaskInBackground (lines 489, 557): the task of a handler call
\* joins the scheduler's queue.
maybeRunTaskInBackground ==
    /\ \E e \in BagToSet(calls) :
          /\ tasks' = Append(tasks, e)
          /\ calls' = calls (-) SetToBag({e})
    /\ UNCHANGED <<store, disk, last, req>>

\* The Create handler reads nothing that a task body writes (it looks up
\* sources only), so its steps up to line 240 are taken at its submit.
CreateRequest ==
    /\ CanRequest
    /\ \E id \in Idents, signerOK \in BOOLEAN :
          IF ~signerOK
          THEN tasks' = Append(tasks,
                          CreateEntry(id, FALSE, SourceSnapshot, <<>>, {}, "nil"))
          ELSE \E kind \in SourceKinds, list \in SourceLists :
                 \E badLoad \in BadLoads(list) :
                    IF ~Submitted(CreateEntry(id, TRUE, kind, list, badLoad, "nil"))
                    THEN tasks' = Append(tasks,
                                    CreateEntry(id, TRUE, kind, list, badLoad, "nil"))
                    ELSE \E skipContents \in FlagInputs :
                            tasks' = Append(tasks,
                                       CreateEntry(id, TRUE, kind, list, badLoad,
                                                   skipContents))
    /\ UNCHANGED <<store, disk, calls, last, req>>

\* The UpdateSources handler from its start to just before line 489: the
\* lookup at line 346 is where it reads the Record Store.
UpdateRequest ==
    /\ CanRequest
    /\ \E id \in Idents, signerOK \in BOOLEAN, loadOK \in BOOLEAN :
          IF ~signerOK \/ ~loadOK \/ ~Exists(store[id])
          THEN \E e \in UpdateEntries(id, signerOK, loadOK, NilList, NilList,
                                      {}, "nil", "nil") :
                  Handled(e)
          ELSE \E bSources \in OptLists, bSnapshots \in LegacyLists :
                 \E badLoad \in BadLoads(bSources.list \o bSnapshots.list) :
                   \E e0 \in UpdateEntries(id, TRUE, TRUE, bSources, bSnapshots,
                                           badLoad, "nil", "nil") :
                      IF ~Submitted(e0)
                      THEN Handled(e0)
                      ELSE \E skipCleanup \in OptBools, skipContents \in FlagInputs :
                             Handled(
                                [e0 EXCEPT
                                   !.published.SkipContents = ApplyFlag(@, skipContents),
                                   !.bSkipContents = skipContents,
                                   !.skipCleanup = SkipCleanupOf(skipCleanup)])
    /\ UNCHANGED <<store, disk, last, req>>

\* The Drop handler from its start to just before line 557: the lookup at
\* line 548 is where it reads the Record Store.
DropRequest ==
    /\ CanRequest
    /\ \E id \in Idents, query \in Queries :
          Handled(DropEntry(id, query))
    /\ UNCHANGED <<store, disk, last, req>>

\* ------------------------------------------------------------------ scheduler

Conflict(a, b) == a.resources \cap b.resources # {}

\* A pending task is admitted once no running task and no task submitted
\* before it and not yet finished holds or waits for one of its keys.
StartTask(i) ==
    /\ tasks[i].state = "pending"
    /\ \A j \in DOMAIN tasks :
          (j # i /\ Conflict(tasks[i], tasks[j])) =>
              /\ tasks[j].state # "running"
              /\ (j < i => tasks[j].state # "pending")
    /\ tasks' = [tasks EXCEPT ![i].state = "running", ![i].pc = "publish"]
    /\ UNCHANGED <<store, disk, calls, last, req>>

\* Mutant of Finish: a task that ends with an error keeps its keys.
Finish_FailureKeepsKeys(i, r) ==
    [tasks EXCEPT ![i].state = IF r.err = "none" THEN "succeeded" ELSE "running",
                  ![i].pc = "done",
                  ![i].code = r.code, ![i].err = r.err,
                  ![i].cleanupErr = r.cleanupErr]

\* The scheduler records the outcome: an error fails the task, and its keys
\* are released either way.
Finish(i, r) ==
    [tasks EXCEPT ![i].state = IF r.err = "none" THEN "succeeded" ELSE "failed",
                  ![i].pc = "done",
                  ![i].code = r.code, ![i].err = r.err,
                  ![i].cleanupErr = r.cleanupErr]

\* What a step of a task body leaves: the outcome so far, the record of the
\* identity and its tree.
Step(err, code, rec, tree, cleanupErr) ==
    [err |-> err, code |-> code, rec |-> rec, tree |-> tree, cleanupErr |-> cleanupErr]

\* The body step of task i with result r: it ends the task on an error or
\* after its last step, and goes on otherwise: from Publish to the commit,
\* from the commit to CleanupPrefixComponentFiles, from there to the
\* RemoveDirs loop, and in the loop to the next removed component.
Apply(i, r, isLast) ==
    /\ store' = [store EXCEPT ![tasks[i].id] = r.rec]
    /\ disk' = [disk EXCEPT ![tasks[i].id] = r.tree]
    /\ tasks' = IF r.err # "none" \/ isLast
                THEN Finish(i, r)
                ELSE [tasks EXCEPT
                        ![i].pc = CASE @ = "publish" -> "commit"
                                    [] @ = "commit" -> "cleanup"
                                    [] OTHER -> "remove",
                        ![i].dropped = IF tasks[i].pc = "remove" THEN @ + 1 ELSE @]

Ran(i) == [idx |-> i, rec |-> store[tasks[i].id], disk |-> disk[tasks[i].id]]

\* ---------------------------------------------------------------- task bodies

\* published.Publish: writes the tree of every bound component.
Publish(tree, p) ==
    [c \in DOMAIN tree \cup DOMAIN p.Sources |->
        IF c \in DOMAIN p.Sources THEN p.Sources[c] ELSE tree[c]]

\* collection.CheckDuplicate(published): the stored record of the identity.
CheckDuplicate(rec) == Exists(rec)

\* Lines 249-276 of the Create closure.
CreateFlags(e) ==
    [e.published EXCEPT
        !.SkipContents = ApplyFlag(ConfigSkipContents, e.bSkipContents)]

\* Lines 278-287: the duplicate check, then Publish.
CreatePublishStep(e, rec, tree, pubOK) ==
    IF CheckDuplicate(rec) THEN Step("duplicate", 400, rec, tree, FALSE)
    ELSE IF ~pubOK THEN Step("publish", 500, rec, tree, FALSE)
    ELSE Step("none", 0, rec, Publish(tree, CreateFlags(e)), FALSE)

\* Mutant of CreateCommitStep: a failed Add takes the published files back.
CreateCommitStep_Rollback(e, rec, tree, addOK) ==
    IF ~addOK
    THEN Step("db", 500, rec, [c \in DOMAIN tree \ DOMAIN e.published.Sources |-> tree[c]],
              FALSE)
    ELSE Step("none", 201, CreateFlags(e), tree, FALSE)

\* Lines 289-294: collection.Add
CreateCommitStep(e, rec, tree, addOK) ==
    IF ~addOK THEN Step("db", 500, rec, tree, FALSE)
    ELSE Step("none", 201, CreateFlags(e), tree, FALSE)

RunCreatePublish(i) ==
    /\ tasks[i].state = "running" /\ tasks[i].op = "create"
    /\ tasks[i].pc = "publish"
    /\ \E pubOK \in BOOLEAN :
          Apply(i, CreatePublishStep(tasks[i], store[tasks[i].id],
                                     disk[tasks[i].id], pubOK), FALSE)
    /\ last' = Ran(i)
    /\ UNCHANGED <<calls, req>>

RunCreateCommit(i) ==
    /\ tasks[i].state = "running" /\ tasks[i].op = "create"
    /\ tasks[i].pc = "commit"
    /\ \E addOK \in BOOLEAN :
          Apply(i, CreateCommitStep(tasks[i], store[tasks[i].id],
                                    disk[tasks[i].id], addOK), TRUE)
    /\ last' = IF last.idx = i THEN last ELSE Ran(i)
    /\ UNCHANGED <<calls, req>>

\* publishedStorage.RemoveDirs(<prefix>/dists/<distribution>/<component>)
RemoveDirs(tree, gone) == [c \in DOMAIN tree \ gone |-> tree[c]]

\* Mutant of UpdatePublishStep: the record is saved before Publish.
UpdatePublishStep_CommitFirst(e, rec, tree, pubOK) ==
    IF ~pubOK THEN Step("publish", 500, e.published, tree, FALSE)
    ELSE Step("none", 0, e.published, Publish(tree, e.published), FALSE)

\* Lines 490-493: Publish
UpdatePublishStep(e, rec, tree, pubOK) ==
    IF ~pubOK THEN Step("publish", 500, rec, tree, FALSE)
    ELSE Step("none", 0, rec, Publish(tree, e.published), FALSE)

\* Lines 495-498: collection.Update. The record is saved from here on,
\* while the task is still running when a cleanup is to follow.
UpdateCommitStep(e, rec, tree, updOK) ==
    IF ~updOK THEN Step("db", 500, rec, tree, FALSE)
    ELSE Step("none", 200, e.published, tree, FALSE)

\* Mutant of UpdateCleanupStep: a failed cleanup restores the old record.
UpdateCleanupStep_Revert(e, rec, tree, cleanOK) ==
    IF ~cleanOK THEN Step("cleanup", 500, e.fetched, tree, TRUE)
    ELSE Step("none", 200, rec, tree, FALSE)

\* Lines 503-506: collection.CleanupPrefixComponentFiles
UpdateCleanupStep(e, rec, tree, cleanOK) ==
    IF ~cleanOK THEN Step("cleanup", 500, rec, tree, TRUE)
    ELSE Step("none", 200, rec, tree, FALSE)

\* Lines 510-515, one iteration: RemoveDirs of the next removed component.
UpdateRemoveStep(e, rec, tree, rmOK) ==
    IF ~rmOK THEN Step("cleanup", 500, rec, tree, TRUE)
    ELSE Step("none", 200, rec, RemoveDirs(tree, {e.removed[e.dropped + 1]}), FALSE)

RunUpdatePublish(i) ==
    /\ tasks[i].state = "running" /\ tasks[i].op = "update"
    /\ tasks[i].pc = "publish"
    /\ \E pubOK \in BOOLEAN :
          Apply(i, UpdatePublishStep(tasks[i], store[tasks[i].id],
                                     disk[tasks[i].id], pubOK), FALSE)
    /\ last' = Ran(i)
    /\ UNCHANGED <<calls, req>>

RunUpdateCommit(i) ==
    /\ tasks[i].state = "running" /\ tasks[i].op = "update"
    /\ tasks[i].pc = "commit"
    /\ \E updOK \in BOOLEAN :
          Apply(i, UpdateCommitStep(tasks[i], store[tasks[i].id],
                                    disk[tasks[i].id], updOK),
                tasks[i].skipCleanup)
    /\ last' = IF last.idx = i THEN last ELSE Ran(i)
    /\ UNCHANGED <<calls, req>>

\* if len(removedComponents) > 0 (line 508): without a removed component
\* the body returns after CleanupPrefixComponentFiles.
RunUpdateCleanup(i) ==
    /\ tasks[i].state = "running" /\ tasks[i].op = "update"
    /\ tasks[i].pc = "cleanup"
    /\ \E cleanOK \in BOOLEAN :
          Apply(i, UpdateCleanupStep(tasks[i], store[tasks[i].id],
                                     disk[tasks[i].id], cleanOK),
                Len(tasks[i].removed) = 0)
    /\ last' = IF last.idx = i THEN last ELSE Ran(i)
    /\ UNCHANGED <<calls, req>>

RunUpdateRemove(i) ==
    /\ tasks[i].state = "running" /\ tasks[i].op = "update"
    /\ tasks[i].pc = "remove"
    /\ \E rmOK \in BOOLEAN :
          Apply(i, UpdateRemoveStep(tasks[i], store[tasks[i].id],
                                    disk[tasks[i].id], rmOK),
                tasks[i].dropped + 1 = Len(tasks[i].removed))
    /\ last' = IF last.idx = i THEN last ELSE Ran(i)
    /\ UNCHANGED <<calls, req>>

\* collection.Remove(storage, prefix, distribution, force, skipCleanup):
\* fails on an unknown identity, or when the referential check refuses and
\* force is not given; else removes the record, and the files unless
\* skipCleanup.
Remove(rec, tree, force, skipCleanup, checkOK) ==
    IF ~Exists(rec) \/ (~force /\ ~checkOK)
    THEN [ok |-> FALSE, rec |-> rec, tree |-> tree]
    ELSE [ok |-> TRUE, rec |-> NoRec,
          tree |-> IF skipCleanup THEN tree ELSE EmptyMap]

\* Lines 557-565: the Drop closure.
DropStep(e, rec, tree, checkOK) ==
    LET r == Remove(rec, tree, e.force, e.skipCleanup, checkOK)
    IN IF ~r.ok THEN Step("drop", 500, rec, tree, FALSE)
       ELSE Step("none", 200, r.rec, r.tree, FALSE)

RunDrop(i) ==
    /\ tasks[i].state = "running" /\ tasks[i].op = "drop"
    /\ \E removeOK \in BOOLEAN :
          Apply(i, DropStep(tasks[i], store[tasks[i].id],
                            disk[tasks[i].id], removeOK), TRUE)
    /\ last' = Ran(i)
    /\ UNCHANGED <<calls, req>>

\* ------------------------------------------------------------- specification

\* The Record Store is durable: the process starts on an empty store or on
\* one that earlier runs left, with the tree published for it.
InitRecords ==
    { NoRec,
      [ SourceKind |-> SourceSnapshot,
        Sources |-> [c \in Components |-> IF c = "main" THEN "uuid-s1" ELSE "uuid-s2"],
        SkipContents |-> FALSE ],
      [ SourceKind |-> SourceLocalRepo,
        Sources |-> [c \in Components |-> IF c = "main" THEN "uuid-r1" ELSE "uuid-r2"],
        SkipContents |-> FALSE ] }

Init ==
    /\ store \in [Idents -> InitRecords]
    /\ disk = [id \in Idents |-> store[id].Sources]
    /\ tasks = <<>>
    /\ last = [idx |-> 0, rec |-> NoRec, disk |-> EmptyMap]
    /\ calls = EmptyBag
    /\ req = NoReq

Next ==
    \/ CreateRequest
    \/ UpdateRequest
    \/ DropRequest
    \/ maybeRunTaskInBackground
    \/ \E i \in DOMAIN tasks : StartTask(i)
    \/ \E i \in DOMAIN tasks : RunCreatePublish(i)
    \/ \E i \in DOMAIN tasks : RunCreateCommit(i)
    \/ \E i \in DOMAIN tasks : RunUpdatePublish(i)
    \/ \E i \in DOMAIN tasks : RunUpdateCommit(i)
    \/ \E i \in DOMAIN tasks : RunUpdateCleanup(i)
    \/ \E i \in DOMAIN tasks : RunUpdateRemove(i)
    \/ \E i \in DOMAIN tasks : RunDrop(i)

Spec == Init /\ [][Next]_vars

\* ------------------------------- one handler call, recorded, and its task

\* Records the handlers can be called on: absent, both components bound, or
\* main alone bound, of either kind, with the contents flag either way.
HandlerRecords ==
    InitRecords \cup
    { [ SourceKind |-> k, Sources |-> [c \in {"main"} |-> u], SkipContents |-> f ] :
        <<k, u>> \in {<<SourceSnapshot, "uuid-s1">>, <<SourceLocalRepo, "uuid-r2">>},
        f \in BOOLEAN }

HandlerInit ==
    /\ store \in [Idents -> HandlerRecords]
    /\ disk = [id \in Idents |-> store[id].Sources]
    /\ tasks = <<>>
    /\ last = [idx |-> 0, rec |-> NoRec, disk |-> EmptyMap]
    /\ calls = EmptyBag
    /\ req = NoReq

\* POST /api/publish/:prefix with any body, signer outcome and load faults.
apiPublishRepoOrSnapshot ==
    /\ tasks = <<>> /\ calls = EmptyBag
    /\ \E id \in Idents, signerOK \in BOOLEAN, kind \in SourceKinds,
          list \in SourceLists, skipContents \in FlagInputs :
          \E badLoad \in BadLoads(list) :
             /\ tasks' = <<CreateEntry(id, signerOK, kind, list, badLoad, skipContents)>>
             /\ calls' = calls
             /\ req' = [NoReq EXCEPT
                          !.op = "create", !.id = id, !.signerOK = signerOK,
                          !.kind = kind, !.list = list, !.sourcesNil = FALSE,
                          !.badLoad = badLoad, !.skipContents = skipContents,
                          !.rec = store[id], !.tree = disk[id]]
    /\ UNCHANGED <<store, disk, last>>

\* POST /api/publish/:prefix/:distribution/update with any body.
apiPublishUpdateSwitch ==
    /\ tasks = <<>> /\ calls = EmptyBag
    /\ \E id \in Idents, signerOK \in BOOLEAN, loadOK \in BOOLEAN,
          bSources \in OptLists, bSnapshots \in LegacyLists,
          skipCleanup \in OptBools, skipContents \in FlagInputs :
          \E badLoad \in BadLoads(bSources.list \o bSnapshots.list) :
             \E e \in UpdateEntries(id, signerOK, loadOK, bSources, bSnapshots,
                                    badLoad, skipCleanup, skipContents) :
                /\ Handled(e)
                /\ req' = [NoReq EXCEPT
                             !.op = "update", !.id = id, !.signerOK = signerOK,
                             !.loadOK = loadOK, !.kind = store[id].SourceKind,
                             !.list = bSources.list, !.sourcesNil = bSources.nil,
                             !.legacyNil = bSnapshots.nil,
                             !.legacy = bSnapshots.list, !.badLoad = badLoad,
                             !.skipCleanup = skipCleanup,
                             !.skipContents = skipContents,
                             !.rec = store[id], !.tree = disk[id]]
    /\ UNCHANGED <<store, disk, last>>

\* DELETE /api/publish/:prefix/:distribution with any query.
apiPublishDrop ==
    /\ tasks = <<>> /\ calls = EmptyBag
    /\ \E id \in Idents, query \in Queries :
          /\ Handled(DropEntry(id, query))
          /\ req' = [NoReq EXCEPT !.op = "drop", !.id = id, !.query = query,
                                 !.rec = store[id], !.tree = disk[id]]
    /\ UNCHANGED <<store, disk, last>>

\* The one request is answered, then the task it submitted runs.
HandlerNext ==
    \/ apiPublishRepoOrSnapshot
    \/ apiPublishUpdateSwitch
    \/ apiPublishDrop
    \/ maybeRunTaskInBackground
    \/ \E i \in DOMAIN tasks : StartTask(i)
    \/ \E i \in DOMAIN tasks : RunCreatePublish(i)
    \/ \E i \in DOMAIN tasks : RunCreateCommit(i)
    \/ \E i \in DOMAIN tasks : RunUpdatePublish(i)
    \/ \E i \in DOMAIN tasks : RunUpdateCommit(i)
    \/ \E i \in DOMAIN tasks : RunUpdateCleanup(i)
    \/ \E i \in DOMAIN tasks : RunUpdateRemove(i)
    \/ \E i \in DOMAIN tasks : RunDrop(i)

HandlerSpec == HandlerInit /\ [][HandlerNext]_vars

\* ------------------------------------------------------------------ fairness

\* The next step of task i: its admission or a step of its body.
TaskStep(i) ==
    /\ i \in DOMAIN tasks
    /\ \/ StartTask(i)
       \/ RunCreatePublish(i) \/ RunCreateCommit(i)
       \/ RunUpdatePublish(i) \/ RunUpdateCommit(i)
       \/ RunUpdateCleanup(i) \/ RunUpdateRemove(i)
       \/ RunDrop(i)

\* The scheduler starts a task that can be admitted, and every call a body
\* makes returns. Requests are under no obligation to arrive.
FairSpec == Spec /\ \A i \in 1..MaxTasks : WF_vars(TaskStep(i))

\* The entry the recorded request left.
Answer == tasks[1]
Called(op) == req.op = op /\ Len(tasks) = 1

\* --------------------------------------------------------------- properties

\* The body of task i is the last one that ran a step.
IsLast(i) == last.idx = i
SameIdentity(i, j) == tasks[i].id = tasks[j].id

\* C1: a Create whose task body runs while a record of its identity exists
\* fails with the duplicate error (400) and leaves the record and the tree as
\* they were, so the identity keeps exactly that one record; and two Creates
\* of one identity both succeed only when a Drop of it succeeded too.
C1_DuplicateCreateFails ==
    /\ \A i \in DOMAIN tasks :
          (IsLast(i) /\ tasks[i].op = "create" /\ Exists(last.rec)) =>
              /\ tasks[i].state = "failed"
              /\ tasks[i].err = "duplicate" /\ tasks[i].code = 400
              /\ store[tasks[i].id] = last.rec
              /\ disk[tasks[i].id] = last.disk
    /\ \A i, j \in DOMAIN tasks :
          ( /\ i < j /\ SameIdentity(i, j)
            /\ tasks[i].op = "create" /\ tasks[j].op = "create"
            /\ tasks[i].state = "succeeded" /\ tasks[j].state = "succeeded" ) =>
              \E k \in DOMAIN tasks :
                 /\ tasks[k].op = "drop" /\ SameIdentity(i, k)
                 /\ tasks[k].state = "succeeded"

C1_Witness ==
    \E i, j \in DOMAIN tasks :
       /\ i # j /\ SameIdentity(i, j)
       /\ tasks[i].op = "create" /\ tasks[i].state = "succeeded"
       /\ tasks[j].op = "create" /\ tasks[j].err = "duplicate"
       /\ IsLast(j) /\ store[tasks[j].id] = tasks[i].published

\* C2: the resource keys of an UpdateSources task hold the identity key of
\* the published repo and the key of every source the request newly binds.
C2_UpdateDeclaresNewSources ==
    \A i \in DOMAIN tasks :
       (tasks[i].op = "update" /\ Submitted(tasks[i])) =>
           /\ PublishedKey(tasks[i].id) \in tasks[i].resources
           /\ ~tasks[i].sourcesNil =>
                 \A c \in tasks[i].updated :
                    SourceKey(tasks[i].published.SourceKind, tasks[i].sources[c])
                       \in tasks[i].resources

\* C3: the record an UpdateSources task works on is the one the Record
\* Store holds when its body starts, under the identity key.
C3_UpdateReadsInsideLock ==
    \A i \in DOMAIN tasks :
       (IsLast(i) /\ tasks[i].op = "update") => tasks[i].fetched = last.rec

\* C4: two tasks (Create, UpdateSources, Drop) of one identity declare
\* intersecting key sets, never run at the same time, and the later one
\* starts only when the earlier one has ended.
C4_SameIdentitySerialized ==
    \A i, j \in DOMAIN tasks :
       (i < j /\ SameIdentity(i, j) /\ Submitted(tasks[i]) /\ Submitted(tasks[j])) =>
           /\ Conflict(tasks[i], tasks[j])
           /\ ~(tasks[i].state = "running" /\ tasks[j].state = "running")
           /\ tasks[j].state \in {"running", "succeeded", "failed"} =>
                 Terminal(tasks[i])

C4_Witness ==
    \E i, j \in DOMAIN tasks :
       /\ i < j /\ SameIdentity(i, j)
       /\ tasks[i].op = "update" /\ tasks[i].state = "succeeded"
       /\ tasks[j].op = "drop" /\ tasks[j].state = "running"

\* The request gave neither sources nor the legacy list.
NoBindings(e) == e.op = "update" /\ Submitted(e) /\ e.sourcesNil /\ ~e.legacy

\* After the body of task i, every component it fetched is on disk with the
\* binding it had.
Rematerialized(i) ==
    (IsLast(i) /\ tasks[i].state = "succeeded") =>
        \A c \in DOMAIN tasks[i].fetched.Sources :
           /\ c \in DOMAIN disk[tasks[i].id]
           /\ disk[tasks[i].id][c] = tasks[i].fetched.Sources[c]

\* C5 as stated: without new bindings every bound component is marked for
\* refresh and re-materialized with its binding, whatever the source kind.
C5_RefreshBothKinds ==
    \A i \in DOMAIN tasks :
       NoBindings(tasks[i]) =>
           /\ tasks[i].updated = DOMAIN tasks[i].fetched.Sources
           /\ tasks[i].published.Sources = tasks[i].fetched.Sources
           /\ Rematerialized(i)

\* C5 amended: without new bindings the bindings stay and every bound
\* component is re-materialized with its binding; the components are marked
\* for refresh for a local-repo publish, and none is for a snapshot publish.
C5_RefreshLocalOnly ==
    \A i \in DOMAIN tasks :
       NoBindings(tasks[i]) =>
           /\ tasks[i].published.Sources = tasks[i].fetched.Sources
           /\ tasks[i].removed = <<>>
           /\ tasks[i].fetched.SourceKind = SourceLocalRepo =>
                 tasks[i].updated = DOMAIN tasks[i].fetched.Sources
           /\ tasks[i].fetched.SourceKind = SourceSnapshot =>
                 tasks[i].updated = {}
           /\ Rematerialized(i)

C5_Witness ==
    \E i \in DOMAIN tasks :
       /\ NoBindings(tasks[i]) /\ IsLast(i) /\ tasks[i].state = "succeeded"
       /\ tasks[i].fetched.SourceKind = SourceLocalRepo
       /\ tasks[i].updated = Components

\* The components the sources list of request e omits.
Omitted(e) == DOMAIN e.fetched.Sources \ DOMAIN e.sources

\* C6: when an UpdateSources request with a sources list that omits bound
\* components has succeeded, the persisted components are those of the list
\* (the fetched ones minus the omitted ones when the list adds none), and the
\* subtree of each omitted one is gone, or as it was under skipCleanup.
C6_OmittedComponentRemoved ==
    \A i \in DOMAIN tasks :
       ( /\ IsLast(i) /\ tasks[i].op = "update" /\ tasks[i].state = "succeeded"
         /\ ~tasks[i].sourcesNil /\ ~tasks[i].legacy ) =>
           LET e == tasks[i]
               now == DOMAIN store[e.id].Sources
           IN /\ now = (DOMAIN e.fetched.Sources \ Omitted(e)) \cup DOMAIN e.sources
              /\ DOMAIN e.sources \subseteq DOMAIN e.fetched.Sources =>
                    now = DOMAIN e.fetched.Sources \ Omitted(e)
              /\ \A x \in Omitted(e) :
                    /\ x \notin now
                    /\ IF e.skipCleanup
                       THEN x \in DOMAIN last.disk =>
                               /\ x \in DOMAIN disk[e.id]
                               /\ disk[e.id][x] = last.disk[x]
                       ELSE x \notin DOMAIN disk[e.id]

C6_Witness ==
    \E i \in DOMAIN tasks :
       /\ IsLast(i) /\ tasks[i].op = "update" /\ tasks[i].state = "succeeded"
       /\ ~tasks[i].sourcesNil /\ ~tasks[i].legacy /\ ~tasks[i].skipCleanup
       /\ Omitted(tasks[i]) = {"contrib"}
       /\ "contrib" \in DOMAIN last.disk
       /\ DOMAIN store[tasks[i].id].Sources = {"main"}

\* C7: a cleanup failure after Publish and the commit leaves the task
\* succeeded (200), the failure being a warning.
C7_CleanupFailureIsWarning ==
    \A i \in DOMAIN tasks :
       (tasks[i].op = "update" /\ tasks[i].cleanupErr) =>
           tasks[i].state = "succeeded" /\ tasks[i].code = 200

\* C8: after a cleanup failure of an UpdateSources task the Record Store
\* holds the record the task committed and the tree has what it published.
C8_CleanupFailureKeepsCommit ==
    \A i \in DOMAIN tasks :
       (IsLast(i) /\ tasks[i].op = "update" /\ tasks[i].cleanupErr) =>
           /\ store[tasks[i].id] = tasks[i].published
           /\ \A c \in DOMAIN tasks[i].published.Sources :
                 /\ c \in DOMAIN disk[tasks[i].id]
                 /\ disk[tasks[i].id][c] = tasks[i].published.Sources[c]

C8_Witness ==
    \E i \in DOMAIN tasks :
       /\ IsLast(i) /\ tasks[i].op = "update" /\ tasks[i].cleanupErr
       /\ tasks[i].published.Sources # last.rec.Sources
       /\ tasks[i].published.SkipContents # last.rec.SkipContents

\* C9: a succeeded Drop deletes the record; asked with skipCleanup=1, the
\* parameter the endpoint documents, it leaves the files as they were, and
\* asked with no such parameter in either spelling it removes them.
C9_DropSkipCleanup ==
    \A i \in DOMAIN tasks :
       (IsLast(i) /\ tasks[i].op = "drop" /\ tasks[i].state = "succeeded") =>
           /\ ~Exists(store[tasks[i].id])
           /\ QueryGet(tasks[i].query, "skipCleanup") = "1" =>
                 disk[tasks[i].id] = last.disk
           /\ DOMAIN tasks[i].query \cap {"skipCleanup", "SkipCleanup"} = {} =>
                 disk[tasks[i].id] = EmptyMap

\* C10: the Record Store is written only after Publish succeeded: while the
\* commit is still to come, and when Publish failed (the task then ends
\* failed), the identity has the record it had before the body: none for a
\* Create, the previous bindings and flags for an UpdateSources.
C10_CommitOnlyAfterPublish ==
    \A i \in DOMAIN tasks :
       (IsLast(i) /\ tasks[i].op \in {"create", "update"}) =>
           /\ (tasks[i].state = "running" /\ tasks[i].pc = "commit") =>
                 store[tasks[i].id] = last.rec
           /\ tasks[i].err = "publish" =>
                 /\ tasks[i].state = "failed"
                 /\ store[tasks[i].id] = last.rec
                 /\ tasks[i].op = "create" => ~Exists(store[tasks[i].id])

C10_Witness ==
    \E i \in DOMAIN tasks :
       /\ IsLast(i) /\ tasks[i].op = "update" /\ tasks[i].err = "publish"
       /\ tasks[i].published.Sources # last.rec.Sources
       /\ tasks[i].published.SkipContents # last.rec.SkipContents

\* Neither the Record Store nor the tree changed since the request came in.
Untouched == store[req.id] = req.rec /\ disk[req.id] = req.tree
NoTask(e) == ~Submitted(e) /\ e.resources = {} /\ e.pc = "none"

\* C11: a Create request whose sources list is empty or whose sourceKind is
\* neither snapshot nor local is answered with an error and submits no task:
\* no key is declared, the record and the tree stay as they were. The answer
\* is 400 whenever the handler got as far as looking at the body, that is
\* whenever the signer was obtained (lines 160-164 come first and answer 500).
C11_BadCreateInputRejected ==
    (Called("create") /\ (Len(req.list) = 0
                          \/ req.kind \notin {SourceSnapshot, SourceLocalRepo})) =>
        /\ NoTask(Answer)
        /\ Untouched
        /\ Answer.abort = IF req.signerOK THEN 400 ELSE 500

\* An empty list of a known kind, answered 400.
C11_Witness ==
    /\ Called("create") /\ req.signerOK
    /\ Len(req.list) = 0 /\ req.kind = SourceSnapshot
    /\ Answer.abort = 400 /\ ~Submitted(Answer)

\* C12: a Create or UpdateSources task is submitted only after the signer
\* was obtained; when signer initialization fails the request is answered
\* 500 at once, no task is submitted, no key is declared or ever held, and
\* the record and the tree stay as they were.
C12_SignerBeforeAdmission ==
    (Called("create") \/ Called("update")) =>
        /\ Submitted(Answer) => req.signerOK
        /\ ~req.signerOK => /\ Answer.abort = 500
                            /\ NoTask(Answer)
                            /\ Untouched

C12_Witness ==
    /\ Called("update") /\ ~req.signerOK /\ Exists(req.rec)
    /\ ~req.sourcesNil /\ Len(req.list) > 0
    /\ Answer.abort = 500 /\ ~Submitted(Answer)

\* The request reached the delta code: signer, fetch and load went through.
Fetched == Called("update") /\ req.signerOK /\ req.loadOK /\ Exists(req.rec)
DeltaOf(e) ==
    [ abort |-> e.abort, bindings |-> e.published.Sources,
      updated |-> e.updated, removed |-> e.removed ]
\* Every name of the list is a loadable source of the publish's kind.
AllLoadable(list) ==
    \A i \in DOMAIN list :
        list[i].Name \in KnownNames(req.kind) \ req.badLoad

\* The legacy list left the answer as it is without one.
LegacyIgnored ==
    DeltaOf(Answer) \in
        { [ abort |-> d.abort, bindings |-> d.published.Sources,
            updated |-> d.updated, removed |-> d.removed ] :
          d \in UpdateDelta(req.rec, [nil |-> FALSE, list |-> req.list],
                            NilList, req.badLoad) }
\* The legacy list was turned into the component -> name map and bound.
LegacyApplied ==
    /\ Submitted(Answer) /\ Answer.abort = 0 /\ Answer.legacy
    /\ Answer.sources = ListToMap(req.legacy)
    /\ \A i \in DOMAIN req.legacy :
          Answer.published.Sources[req.legacy[i].Component]
              = SourceUUID(ListToMap(req.legacy)[req.legacy[i].Component])

\* C13 as stated: whatever the kind of the publish, a legacy list next to a
\* sources list changes nothing, and the entries of a legacy list alone are
\* bound.
C13_LegacyOnlyWithoutSources ==
    Fetched =>
        /\ (~req.sourcesNil /\ ~req.legacyNil) => LegacyIgnored
        /\ (req.sourcesNil /\ Len(req.legacy) > 0 /\ AllLoadable(req.legacy))
              => LegacyApplied

\* C13, as the code has it: for a snapshot publish a legacy list next to a
\* sources list changes nothing, and a legacy list alone is turned into the
\* same component -> name map and bound (components it does not name keep
\* their binding); for a local-repo publish a non-empty legacy list is
\* answered 404 with no task, whether or not sources is given.
C13_LegacySnapshotPublishOnly ==
    Fetched =>
        /\ (req.kind = SourceSnapshot /\ ~req.sourcesNil /\ ~req.legacyNil)
              => LegacyIgnored
        /\ (req.kind = SourceSnapshot /\ req.sourcesNil /\ Len(req.legacy) > 0
               /\ AllLoadable(req.legacy))
              => /\ LegacyApplied
                 /\ \A c \in DOMAIN req.rec.Sources \ DOMAIN Answer.sources :
                       /\ c \in DOMAIN Answer.published.Sources
                       /\ Answer.published.Sources[c] = req.rec.Sources[c]
        /\ (req.kind = SourceLocalRepo /\ Len(req.legacy) > 0)
              => Answer.abort = 404 /\ NoTask(Answer)

\* A snapshot publish rebound through the legacy list alone.
C13_Witness ==
    /\ Fetched /\ req.kind = SourceSnapshot
    /\ req.sourcesNil /\ Len(req.legacy) > 0
    /\ Submitted(Answer) /\ Answer.legacy
    /\ Answer.updated # {}

\* C14: a submitted Create task declares the key of every source of the
\* request and the key of the identity to be created, and no other key.
C14_CreateDeclaresSourcesAndIdentity ==
    (Called("create") /\ Submitted(Answer)) =>
        /\ \A i \in DOMAIN req.list :
              SourceKey(req.kind, req.list[i].Name) \in Answer.resources
        /\ PublishedKey(req.id) \in Answer.resources
        /\ \A k \in Answer.resources :
              \/ k = PublishedKey(req.id)
              \/ \E i \in DOMAIN req.list : k = SourceKey(req.kind, req.list[i].Name)

\* Two different sources: three keys.
C14_Witness ==
    /\ Called("create") /\ Submitted(Answer)
    /\ Len(req.list) = 2 /\ req.list[1].Name # req.list[2].Name
    /\ Cardinality(Answer.resources) = 3

\* C15: when collection.Add (Create) or collection.Update (UpdateSources)
\* fails after Publish went through, the task ends failed with that error
\* (500), the record is the one the body started on, every tree Publish wrote
\* is still on disk, and no cleanup ran: nothing that was on disk is gone.
C15_CommitFailureKeepsFiles ==
    \A i \in DOMAIN tasks :
        (IsLast(i) /\ tasks[i].err = "db") =>
            /\ tasks[i].op \in {"create", "update"}
            /\ tasks[i].state = "failed" /\ tasks[i].code = 500
            /\ store[tasks[i].id] = last.rec
            /\ \A c \in DOMAIN tasks[i].published.Sources :
                  /\ c \in DOMAIN disk[tasks[i].id]
                  /\ disk[tasks[i].id][c] = tasks[i].published.Sources[c]
            /\ ~tasks[i].cleanupErr
            /\ DOMAIN last.disk \subseteq DOMAIN disk[tasks[i].id]

\* An update that removes a component and rebinds another fails at its commit.
C15_Witness ==
    \E i \in DOMAIN tasks :
        /\ IsLast(i) /\ tasks[i].err = "db" /\ tasks[i].op = "update"
        /\ tasks[i].removed # <<>> /\ ~tasks[i].skipCleanup
        /\ disk[tasks[i].id] # last.disk

\* The component -> name map the request asks for.
Requested == ListToMap(req.list)

\* C16: an accepted UpdateSources request with a sources list has an exact
\* delta: removed are the components bound before and not listed, updated
\* are the listed components that were unbound or bound to another UUID, a
\* listed component bound to the same source is in neither, the two sets are
\* disjoint, and the bindings are those of the list.
C16_ExactDelta ==
    (Fetched /\ ~req.sourcesNil /\ Submitted(Answer)) =>
        /\ Range(Answer.removed) = DOMAIN req.rec.Sources \ DOMAIN Requested
        /\ Answer.updated =
              {c \in DOMAIN Requested :
                  \/ c \notin DOMAIN req.rec.Sources
                  \/ req.rec.Sources[c] # SourceUUID(Requested[c])}
        /\ Range(Answer.removed) \cap Answer.updated = {}
        /\ DOMAIN Answer.published.Sources = DOMAIN Requested
        /\ \A c \in DOMAIN Requested :
              Answer.published.Sources[c] = SourceUUID(Requested[c])

\* One listed component rebound, one listed with the source it already has.
C16_Witness ==
    /\ Fetched /\ ~req.sourcesNil /\ Submitted(Answer)
    /\ Answer.updated # {}
    /\ \E c \in DOMAIN Requested :
          /\ c \notin Answer.updated
          /\ c \in DOMAIN req.rec.Sources
          /\ req.rec.Sources[c] = SourceUUID(Requested[c])

\* C17: an UpdateSources request answered with an error (unknown published
\* repo, unknown source name, a source that fails to load, a legacy list for
\* a local-repo publish) submits no task and leaves the record and the tree
\* as they were, whatever the handler did to the object it fetched.
C17_FailedUpdateLeavesNoTrace ==
    (Called("update") /\ Answer.abort # 0) => NoTask(Answer) /\ Untouched

\* The fetched object lost a component before the request was turned down.
C17_Witness ==
    /\ Fetched /\ Answer.abort \in {404, 500} /\ ~Submitted(Answer)
    /\ Answer.removed # <<>>
    /\ Answer.published # req.rec
    /\ store[req.id] = req.rec

\* C18: every task the scheduler was given is eventually succeeded or
\* failed, whatever its body met, and a task left pending behind another one
\* on the same identity key is eventually started.
C18_EveryTaskEnds ==
    \A i \in 1..MaxTasks :
        /\ (i \in DOMAIN tasks /\ Submitted(tasks[i]))
              ~> (i \in DOMAIN tasks /\ Terminal(tasks[i]))
        /\ (i \in DOMAIN tasks /\ tasks[i].state = "pending")
              ~> (i \in DOMAIN tasks /\ tasks[i].state # "pending")

\* The second task on an identity ended after the first one failed.
C18_Witness ==
    \E i, j \in DOMAIN tasks :
        /\ i < j /\ Conflict(tasks[i], tasks[j])
        /\ tasks[i].state = "failed"
        /\ Terminal(tasks[j]) /\ IsLast(j)

\* What request e leaves of record r when it is handled after r was saved.
Serial(r, e) ==
    [ SourceKind |-> r.SourceKind,
      Sources |->
          IF e.legacy
          THEN [c \in DOMAIN r.Sources \cup DOMAIN e.sources |->
                   IF c \in DOMAIN e.sources THEN SourceUUID(e.sources[c])
                   ELSE r.Sources[c]]
          ELSE IF e.sourcesNil THEN r.Sources
          ELSE [c \in DOMAIN e.sources |-> SourceUUID(e.sources[c])],
      SkipContents |-> ApplyFlag(r.SkipContents, e.bSkipContents) ]

\* Task j ran right after task i, both UpdateSources of one identity that
\* succeeded, and the body of j started on the record i saved.
RanInOrder(i, j) ==
    /\ i # j /\ SameIdentity(i, j) /\ IsLast(j)
    /\ tasks[i].op = "update" /\ tasks[j].op = "update"
    /\ tasks[i].state = "succeeded" /\ tasks[j].state = "succeeded"
    /\ last.rec = tasks[i].published

\* C19: when two UpdateSources tasks of one identity ran one after the other,
\* the record the second one saves is what its request makes of the record
\* the first one saved.
C19_UpdatesSerializable ==
    \A i, j \in DOMAIN tasks :
        RanInOrder(i, j) => store[tasks[j].id] = Serial(last.rec, tasks[j])

\* C20: an UpdateSources body that starts when the record of its identity is
\* gone (a Drop succeeded after the request was accepted) neither saves a
\* record nor writes files.
C20_DroppedStaysDropped ==
    \A j \in DOMAIN tasks :
        (/\ IsLast(j) /\ tasks[j].op = "update"
         /\ ~Exists(last.rec)
         /\ \E d \in DOMAIN tasks :
               /\ tasks[d].op = "drop" /\ SameIdentity(d, j)
               /\ tasks[d].state = "succeeded") =>
            /\ ~Exists(store[tasks[j].id])
            /\ disk[tasks[j].id] = last.disk

\* C21: a Create request that was answered with an error (signer, empty
\* sources, unknown kind, unknown source, a source that fails to load,
\* NewPublishedRepo) submits no task, declares no key, and the record and
\* the tree stay as they were.
C21_FailedCreateEndsRequest ==
    (Called("create") /\ Answer.abort # 0) => NoTask(Answer) /\ Untouched

====
